---- MODULE Spec2Model ----
(***************************************************************************)
(* Model of the API_Integration core: the two-tier TTL cache               *)
(* (src/src/cache_manager.py), the retrying API client                     *)
(* (src/src/api_client.py) and the cache-aside command handlers            *)
(* (src/src/cli.py).                                                        *)
(***************************************************************************)
EXTENDS Integers, Sequences, FiniteSets, TLC

\* ------------------------------------------------------------------------
\* Bounds of the model
\* ------------------------------------------------------------------------

\* the clock int(time.time()) runs over 0..MaxTime
MaxTime == 2

\* ttl_seconds is drawn from 0..MaxTtl
MaxTtl == 1

\* max_retries of a stand-alone client is drawn from 0..MaxRetries
MaxRetries == 3

\* max_retries of the client the CLI is wired to
CliMaxRetries == 1

\* ------------------------------------------------------------------------
\* Values
\* ------------------------------------------------------------------------

\* cache keys are strings, modelled as sequences of characters
KeyPosts == <<"p", "o", "s", "t", "s">>

KeyUsers == <<"u", "s", "e", "r", "s">>

Keys == {KeyPosts, KeyUsers}

\* another key a caller of the cache can pass: the path form of "posts"
KeySlashPosts == <<"/", "p", "o", "s", "t", "s">>

\* two different keys whose names differ in a path separator only
IsoKeys == {KeyPosts, KeySlashPosts}

\* records are opaque to the core; two distinguishable ones
Rec1 == [id |-> 1, userId |-> 2]

Rec2 == [id |-> 2, userId |-> 1]

\* payloads: sequences of records, the empty sequence included
Payloads == {<<>>, <<Rec1, Rec2>>}

VARIABLES
    now,            \* int(time.time())
    ttl,            \* CacheManager.ttl
    mem,            \* CacheManager._mem_cache : key -> [ts, data]
    files,          \* the cache directory : path -> file text
    ret,            \* outcome of the last completed operation
    pc,             \* position of the running CLI command ("idle" when none)
    cmd,            \* the running command
    force,          \* its --force flag
    ckey,           \* the cache key the handler is working on
    data,           \* local `data`/`posts`/`users` of the handler
    from_cache,     \* local `from_cache` of the handler
    fetch_calls,    \* how often the running command invoked the fetcher
    had_fresh,      \* whether a fresh entry for ckey existed when the command began
    item,           \* the id argument of get post / get user (0 when none)
    served,         \* how many collections the running command took from the cache
    max_retries,    \* APIClient.max_retries
    backoff_factor, \* APIClient.backoff_factor, in units of half a second
    fpc,            \* position of _request: "idle", "running", "returned", "raised"
    attempt,        \* the loop variable `attempt` (0 before the first pass)
    sleeps,         \* the arguments of the time.sleep calls made, in order
    outcomes,       \* the class of each finished attempt, in order
    last_exc,       \* local `last_exc` of _request
    fres,           \* the list _request returned
    ferr            \* the message class of the APIClientError _request raised

cacheVars == <<now, ttl, mem, files>>

cmdVars == <<pc, cmd, force, ckey, data, from_cache, fetch_calls, had_fresh,
             item, served>>

fetchVars == <<fpc, attempt, sleeps, outcomes, last_exc, fres, ferr>>

cfgVars == <<max_retries, backoff_factor>>

vars == <<now, ttl, mem, files, ret, pc, cmd, force, ckey, data, from_cache,
          fetch_calls, had_fresh, item, served, max_retries, backoff_factor, fpc,
          attempt, sleeps, outcomes, last_exc, fres, ferr>>

\* ------------------------------------------------------------------------
\* CacheManager (src/src/cache_manager.py)
\* ------------------------------------------------------------------------

\* str.replace("/", "_")
ReplaceSlash(s) == [i \in DOMAIN s |-> IF s[i] = "/" THEN "_" ELSE s[i]]

RECURSIVE LStrip(_)
\* leading "_" characters removed
LStrip(s) == IF s # <<>> /\ Head(s) = "_" THEN LStrip(Tail(s)) ELSE s

RECURSIVE RStrip(_)
\* trailing "_" characters removed
RStrip(s) ==
    IF s # <<>> /\ s[Len(s)] = "_" THEN RStrip(SubSeq(s, 1, Len(s) - 1)) ELSE s

\* str.strip("_")
Strip(s) == RStrip(LStrip(s))

\* CacheManager._file_path: the file name inside cache_dir
FilePath(key) == Strip(ReplaceSlash(key)) \o <<".json">>

\* text written by json.dump({"ts": ts, "data": data}, fh)
JsonDump(ts, d) ==
    [kind |-> "json", has_ts |-> TRUE, has_data |-> TRUE, ts |-> ts, data |-> d]

\* text left behind when the write stops part-way: a prefix of the document
PartialDump(ts, d) ==
    [kind |-> "truncated", has_ts |-> FALSE, has_data |-> FALSE, ts |-> 0,
     data |-> <<>>]

\* json.load(fh): ValueError unless the text is a complete document
JsonLoad(text) ==
    IF text.kind = "json"
    THEN [ok |-> TRUE, obj |-> text]
    ELSE [ok |-> FALSE, obj |-> text]

\* safe_get(obj, "ts", 0)
SafeGetTs(obj) == IF obj.has_ts THEN obj.ts ELSE 0

\* safe_get(obj, "data", None): [some |-> FALSE] stands for None
SafeGetData(obj) ==
    IF obj.has_data
    THEN [some |-> TRUE, val |-> obj.data]
    ELSE [some |-> FALSE, val |-> <<>>]

\* variant of DictSet: an existing key keeps its value (dict.setdefault)
DictSetKeepOld(d, key, e) ==
    [k \in DOMAIN d \cup {key} |-> IF k \in DOMAIN d THEN d[k] ELSE e]

\* dict assignment d[key] = e
DictSet(d, key, e) ==
    [k \in DOMAIN d \cup {key} |-> IF k = key THEN e ELSE d[k]]

\* dict.pop(key, None) / os.remove(path) with the error swallowed
DictPop(d, key) == [k \in DOMAIN d \ {key} |-> d[k]]

\* variant of IsValid: an entry whose age equals ttl is already expired
IsValidStrict(allow_stale, age, t) == allow_stale \/ age < t

\* variant of IsValid: allow_stale is ignored
IsValidNoStale(allow_stale, age, t) == age <= t

\* the freshness test of load: `allow_stale or age <= self.ttl`
IsValid(allow_stale, age, t) == allow_stale \/ age <= t

\* variant of MemHit: the age of the memory entry is not looked at
MemHitAnyAge(m, key, allow_stale, t, n) == key \in DOMAIN m

\* the memory branch of load, lines 55-62
MemHit(m, key, allow_stale, t, n) ==
    key \in DOMAIN m /\ IsValid(allow_stale, n - m[key].ts, t)

\* variant of LoadResult: a memory hit stamps the entry with the time of the load
LoadResultTouch(m, fs, key, allow_stale, t, n) ==
    IF MemHit(m, key, allow_stale, t, n)
    THEN [kind |-> "hit", data |-> m[key].data,
          mem |-> DictSet(m, key, [ts |-> n, data |-> m[key].data])]
    ELSE LET path == FilePath(key) IN
         IF path \notin DOMAIN fs
         THEN [kind |-> "miss", data |-> <<>>, mem |-> m]
         ELSE LET parsed == JsonLoad(fs[path])
                  ts == SafeGetTs(parsed.obj)
                  d == SafeGetData(parsed.obj)
              IN  IF ~parsed.ok
                  THEN [kind |-> "CacheIOError", data |-> <<>>, mem |-> m]
                  ELSE IF ~d.some
                  THEN [kind |-> "miss", data |-> <<>>, mem |-> m]
                  ELSE IF IsValid(allow_stale, n - ts, t)
                  THEN [kind |-> "hit", data |-> d.val,
                        mem |-> DictSet(m, key, [ts |-> ts, data |-> d.val])]
                  ELSE [kind |-> "miss", data |-> <<>>, mem |-> m]

\* variant of LoadResult: the promoted entry is stamped with the time of the load
LoadResultPromoteNow(m, fs, key, allow_stale, t, n) ==
    IF MemHit(m, key, allow_stale, t, n)
    THEN [kind |-> "hit", data |-> m[key].data, mem |-> m]
    ELSE LET path == FilePath(key) IN
         IF path \notin DOMAIN fs
         THEN [kind |-> "miss", data |-> <<>>, mem |-> m]
         ELSE LET parsed == JsonLoad(fs[path])
                  ts == SafeGetTs(parsed.obj)
                  d == SafeGetData(parsed.obj)
              IN  IF ~parsed.ok
                  THEN [kind |-> "CacheIOError", data |-> <<>>, mem |-> m]
                  ELSE IF ~d.some
                  THEN [kind |-> "miss", data |-> <<>>, mem |-> m]
                  ELSE IF IsValid(allow_stale, n - ts, t)
                  THEN [kind |-> "hit", data |-> d.val,
                        mem |-> DictSet(m, key, [ts |-> n, data |-> d.val])]
                  ELSE [kind |-> "miss", data |-> <<>>, mem |-> m]

\* CacheManager.load: [kind, data, mem] for the given state
LoadResult(m, fs, key, allow_stale, t, n) ==
    IF MemHit(m, key, allow_stale, t, n)
    THEN [kind |-> "hit", data |-> m[key].data, mem |-> m]
    ELSE LET path == FilePath(key) IN
         IF path \notin DOMAIN fs
         THEN [kind |-> "miss", data |-> <<>>, mem |-> m]
         ELSE LET parsed == JsonLoad(fs[path])
                  ts == SafeGetTs(parsed.obj)
                  d == SafeGetData(parsed.obj)
              IN  IF ~parsed.ok
                  THEN [kind |-> "CacheIOError", data |-> <<>>, mem |-> m]
                  ELSE IF ~d.some
                  THEN [kind |-> "miss", data |-> <<>>, mem |-> m]
                  ELSE IF IsValid(allow_stale, n - ts, t)
                  THEN [kind |-> "hit", data |-> d.val,
                        mem |-> DictSet(m, key, [ts |-> ts, data |-> d.val])]
                  ELSE [kind |-> "miss", data |-> <<>>, mem |-> m]

\* the outcomes of the file write of save
WriteOutcomes == {"ok", "open_fails", "write_fails"}

\* the file system after the write of save, lines 43-50
WriteFile(fs, path, ts, d, w) ==
    CASE w = "ok" -> DictSet(fs, path, JsonDump(ts, d))
      [] w = "write_fails" -> DictSet(fs, path, PartialDump(ts, d))
      [] OTHER -> fs

\* variant of SaveResult: a failed write takes the memory entry back
SaveResultRollback(m, fs, key, d, n, w) ==
    [kind |-> IF w = "ok" THEN "ok" ELSE "CacheIOError",
     mem |-> IF w = "ok" THEN DictSet(m, key, [ts |-> n, data |-> d]) ELSE m,
     files |-> WriteFile(fs, FilePath(key), n, d, w)]

\* variant of SaveResult: the memory tier is not written
SaveResultFileOnly(m, fs, key, d, n, w) ==
    [kind |-> IF w = "ok" THEN "ok" ELSE "CacheIOError",
     mem |-> m,
     files |-> WriteFile(fs, FilePath(key), n, d, w)]

\* CacheManager.save: [kind, mem, files]
SaveResult(m, fs, key, d, n, w) ==
    [kind |-> IF w = "ok" THEN "ok" ELSE "CacheIOError",
     mem |-> DictSet(m, key, [ts |-> n, data |-> d]),
     files |-> WriteFile(fs, FilePath(key), n, d, w)]

\* variant of ClearKeyResult: the file is left in place
ClearKeyMemOnly(m, fs, key) == [mem |-> DictPop(m, key), files |-> fs]

\* CacheManager.clear(key) with a truthy key, lines 90-96
ClearKeyResult(m, fs, key) ==
    [mem |-> DictPop(m, key), files |-> DictPop(fs, FilePath(key))]

\* the empty dict
EmptyDict == [k \in {} |-> 0]

\* CacheManager.clear() without a key, lines 97-106
ClearAllResult(m, fs) == [mem |-> EmptyDict, files |-> EmptyDict]

\* CacheManager.clear: a falsy key (None or "") clears everything
ClearResult(m, fs, key) ==
    IF key # <<>> THEN ClearKeyResult(m, fs, key) ELSE ClearAllResult(m, fs)

\* outcome record of a cache operation called directly: what was called and
\* what it returned or raised, and the circumstances of the call
\*   pre   : the operation completed just before, as far as it concerned key
\*   had   : the tiers that held key when clear was called
\*   fresh : whether a fresh entry for the key existed when a command began
\*   at    : the time of a save
\*   hits  : how many collections a command took from the cache
Ret(op, key, stale, kind, d) ==
    [op |-> op, key |-> key, stale |-> stale, kind |-> kind, data |-> d,
     from_cache |-> FALSE, code |-> 0, calls |-> 0, forced |-> FALSE,
     pre |-> "other", had |-> "none", fresh |-> FALSE, at |-> 0, hits |-> 0]

\* the tiers that hold something for key
Tiers(m, fs, key) ==
    IF key \in DOMAIN m
    THEN IF FilePath(key) \in DOMAIN fs THEN "both" ELSE "mem"
    ELSE IF FilePath(key) \in DOMAIN fs THEN "file" ELSE "none"

\* what the operation recorded in r did to key, for the next operation on key
PrevOp(r, key) ==
    IF r.op = "clear" /\ r.key \in {key, <<>>} THEN "clear"
    ELSE IF r.op = "save" /\ r.key = key /\ r.kind = "ok" THEN "save"
    ELSE IF /\ r.op \in {"list_posts", "list_users"}
            /\ r.key = key
            /\ r.kind = "ok"
            /\ ~r.from_cache
            /\ ~r.forced
    THEN "populate"
    ELSE IF r.op = "restart" THEN "restart"
    ELSE "other"

\* the persisted tier holds a well-formed entry for key
HasFileEntry(fs, key) ==
    /\ FilePath(key) \in DOMAIN fs
    /\ fs[FilePath(key)].kind = "json"
    /\ fs[FilePath(key)].has_ts
    /\ fs[FilePath(key)].has_data

\* the persisted tier holds a file for key that is no well-formed entry
HasBrokenFile(fs, key) ==
    FilePath(key) \in DOMAIN fs /\ ~HasFileEntry(fs, key)

\* an entry of age <= ttl exists for key, in memory or persisted
FreshMemEntry(key) == key \in DOMAIN mem /\ now - mem[key].ts <= ttl

FreshFileEntry(key) ==
    HasFileEntry(files, key) /\ now - files[FilePath(key)].ts <= ttl

FreshEntry(key) == FreshMemEntry(key) \/ FreshFileEntry(key)

\* the payload of the fresh entry, the memory tier first
FreshPayload(key) ==
    IF FreshMemEntry(key) THEN mem[key].data ELSE files[FilePath(key)].data

\* every tier that holds key holds a well-formed entry of age > ttl
ExpiredEntry(key) ==
    /\ key \in DOMAIN mem \/ HasFileEntry(files, key)
    /\ key \in DOMAIN mem => now - mem[key].ts > ttl
    /\ ~HasBrokenFile(files, key)
    /\ HasFileEntry(files, key) => now - files[FilePath(key)].ts > ttl

\* an entry exists for key, in memory or persisted
StoredEntry(key) == key \in DOMAIN mem \/ HasFileEntry(files, key)

\* its payload, the memory tier first
StoredPayload(key) ==
    IF key \in DOMAIN mem THEN mem[key].data ELSE files[FilePath(key)].data

\* cache.save(key, d) called directly
Save(key, d, w) ==
    /\ pc = "idle"
    /\ LET r == SaveResult(mem, files, key, d, now, w) IN
        /\ mem' = r.mem
        /\ files' = r.files
        /\ ret' = [Ret("save", key, FALSE, r.kind, d) EXCEPT !.at = now]
    /\ UNCHANGED <<now, ttl, cmdVars, cfgVars, fetchVars>>

\* cache.load(key, allow_stale) called directly
Load(key, allow_stale) ==
    /\ pc = "idle"
    /\ LET r == LoadResult(mem, files, key, allow_stale, ttl, now) IN
        /\ mem' = r.mem
        /\ ret' = [Ret("load", key, allow_stale, r.kind, r.data)
                      EXCEPT !.pre = PrevOp(ret, key)]
    /\ UNCHANGED <<now, ttl, files, cmdVars, cfgVars, fetchVars>>

\* cache.clear(key) called directly; key <<>> is clear() / clear("")
Clear(key) ==
    /\ pc = "idle"
    /\ LET r == ClearResult(mem, files, key) IN
        /\ mem' = r.mem
        /\ files' = r.files
    /\ ret' = [Ret("clear", key, FALSE, "ok", <<>>)
                  EXCEPT !.had = Tiers(mem, files, key)]
    /\ UNCHANGED <<now, ttl, cmdVars, cfgVars, fetchVars>>

\* the wall clock advances by a second
Tick ==
    /\ now < MaxTime
    /\ now' = now + 1
    /\ UNCHANGED <<ttl, mem, files, ret, cmdVars, cfgVars, fetchVars>>

\* the process exits and a new one starts: CacheManager.__init__, lines 28-32
Restart ==
    /\ pc = "idle"
    /\ mem' = EmptyDict
    /\ ret' = Ret("restart", <<>>, FALSE, "ok", <<>>)
    /\ UNCHANGED <<now, ttl, files, cmdVars, cfgVars, fetchVars>>

\* ------------------------------------------------------------------------
\* APIClient (src/src/api_client.py)
\* ------------------------------------------------------------------------

\* exceptions session.get can raise
Exceptions == {"Timeout", "ConnectionError", "Exception"}

\* status codes of a response: success, client error, server error
StatusCodes == {200, 404, 500}

\* what one pass of the loop can meet: an exception of session.get ...
ExcOutcomes ==
    {[exc |-> e, status |-> 0, body |-> "none", data |-> <<>>] : e \in Exceptions}

\* ... or a response whose body is a JSON list, another JSON value, or no JSON
RespOutcomes ==
    {[exc |-> "none", status |-> s, body |-> "list", data |-> d] :
        s \in StatusCodes, d \in Payloads}
    \cup
    {[exc |-> "none", status |-> s, body |-> b, data |-> <<>>] :
        s \in StatusCodes, b \in {"object", "invalid"}}

AttemptOutcomes == ExcOutcomes \cup RespOutcomes

\* how the try block of _request ends for an outcome, lines 47-82
Classify(o) ==
    IF o.exc \in {"Timeout", "ConnectionError"} THEN "transport"
    ELSE IF o.exc # "none" THEN "uncategorized"
    ELSE IF o.status >= 500 THEN "server_error"
    ELSE IF o.status >= 400 THEN "client_error"
    ELSE IF o.body = "invalid" THEN "malformed"
    ELSE IF o.body # "list" THEN "shape"
    ELSE "success"

\* variant of Retryable: only the named transport exceptions are swallowed
RetryableTransportOnly(c) == c = "transport"

\* variant of Retryable: every failed attempt is retried
RetryableAnyError(c) == c # "success"

\* the classes the except clauses of lines 69 and 78 swallow
Retryable(c) == c \in {"transport", "uncategorized"}

RECURSIVE Pow2(_)
\* 2 ** n
Pow2(n) == IF n <= 0 THEN 1 ELSE 2 * Pow2(n - 1)

\* wait = self.backoff_factor * (2 ** (attempt - 1))
Wait(b, a) == b * Pow2(a - 1)

\* fetch variables of a call that has not started
FetchIdle ==
    /\ fpc' = "idle"
    /\ attempt' = 0
    /\ sleeps' = <<>>
    /\ outcomes' = <<>>
    /\ last_exc' = "none"
    /\ fres' = <<>>
    /\ ferr' = "none"

\* entry to _request, lines 44-45
FetchInvoke ==
    /\ fpc' = "running"
    /\ attempt' = 0
    /\ sleeps' = <<>>
    /\ outcomes' = <<>>
    /\ last_exc' = "none"
    /\ fres' = <<>>
    /\ ferr' = "none"

\* variant of Attempt: the loop has no bound (`while True`)
AttemptUnbounded(o) ==
    /\ fpc = "running"
    /\ attempt' = attempt + 1
    /\ outcomes' = Append(outcomes, Classify(o))
    /\ LET c == Classify(o) IN
        IF Retryable(c)
        THEN /\ last_exc' = o.exc
             /\ sleeps' = Append(sleeps, Wait(backoff_factor, attempt + 1))
             /\ UNCHANGED <<fpc, fres, ferr>>
        ELSE IF c = "success"
        THEN /\ fpc' = "returned"
             /\ fres' = o.data
             /\ UNCHANGED <<sleeps, last_exc, ferr>>
        ELSE /\ fpc' = "raised"
             /\ ferr' = c
             /\ UNCHANGED <<sleeps, last_exc, fres>>
    /\ UNCHANGED <<cacheVars, ret, cmdVars, cfgVars>>

\* one pass of `for attempt in range(1, self.max_retries + 1)`, lines 46-82
Attempt(o) ==
    /\ fpc = "running"
    /\ attempt < max_retries
    /\ attempt' = attempt + 1
    /\ outcomes' = Append(outcomes, Classify(o))
    /\ LET c == Classify(o) IN
        IF Retryable(c)
        THEN /\ last_exc' = o.exc
             /\ sleeps' = Append(sleeps, Wait(backoff_factor, attempt + 1))
             /\ UNCHANGED <<fpc, fres, ferr>>
        ELSE IF c = "success"
        THEN /\ fpc' = "returned"
             /\ fres' = o.data
             /\ UNCHANGED <<sleeps, last_exc, ferr>>
        ELSE /\ fpc' = "raised"
             /\ ferr' = c
             /\ UNCHANGED <<sleeps, last_exc, fres>>
    /\ UNCHANGED <<cacheVars, ret, cmdVars, cfgVars>>

\* the loop is over: raise APIClientError(...) from last_exc, lines 83-85
Exhausted ==
    /\ fpc = "running"
    /\ attempt >= max_retries
    /\ fpc' = "raised"
    /\ ferr' = "exhausted"
    /\ UNCHANGED <<attempt, sleeps, outcomes, last_exc, fres>>
    /\ UNCHANGED <<cacheVars, ret, cmdVars, cfgVars>>

\* a direct caller of fetch_posts()/fetch_users() calls again
ClientCall ==
    /\ pc = "client"
    /\ fpc # "running"
    /\ FetchInvoke
    /\ UNCHANGED <<cacheVars, ret, cmdVars, cfgVars>>

\* ------------------------------------------------------------------------
\* CLI (src/src/cli.py)
\* ------------------------------------------------------------------------

\* the commands of CLI.run that read one collection
Commands == {"list_posts", "list_users"}

\* the cache key a list handler uses
KeyOf(c) == IF c = "list_posts" THEN KeyPosts ELSE KeyUsers

\* outcome record of a finished command: the handler's results and the
\* status CLI.run returns
CmdRet(c, k, f, calls, kind, d, fc, code) ==
    [Ret(c, k, FALSE, kind, d)
        EXCEPT !.from_cache = fc, !.code = code, !.calls = calls, !.forced = f]

\* the locals of a command that is not running
CmdIdle ==
    /\ pc' = "idle"
    /\ cmd' = "none"
    /\ force' = FALSE
    /\ ckey' = <<>>
    /\ data' = <<>>
    /\ from_cache' = FALSE
    /\ fetch_calls' = 0
    /\ had_fresh' = FALSE
    /\ item' = 0
    /\ served' = 0

\* the command is suspended in its call of fetcher()
CmdFetching(c, f) ==
    /\ pc' = "fetch"
    /\ cmd' = c
    /\ force' = f
    /\ ckey' = KeyOf(c)
    /\ data' = <<>>
    /\ from_cache' = FALSE
    /\ fetch_calls' = 1
    /\ had_fresh' = FreshEntry(KeyOf(c))
    /\ item' = 0
    /\ served' = 0
    /\ ret' = Ret("running", <<>>, FALSE, "ok", <<>>)
    /\ FetchInvoke

\* variant of ForceClear: the handler forgets to clear
ForceClearSkipped(m, fs, k, f) == [mem |-> m, files |-> fs]

\* `if force: self.cache.clear(key)` at the head of a handler
ForceClear(m, fs, k, f) ==
    IF f THEN ClearResult(m, fs, k) ELSE [mem |-> m, files |-> fs]

\* CLI.run dispatches to _handle_list_posts / _handle_list_users, which run up
\* to the call of the fetcher or to their return: the forced list posts
\* fetches directly (lines 100-104), every other case goes through
\* _fetch_with_cache (lines 87-93)
Run(c, f) ==
    /\ pc = "idle"
    /\ LET k == KeyOf(c)
           cl == ForceClear(mem, files, k, f)
           r == LoadResult(cl.mem, cl.files, k, FALSE, ttl, now)
       IN  IF f /\ c = "list_posts"
           THEN /\ mem' = cl.mem
                /\ files' = cl.files
                /\ CmdFetching(c, f)
           ELSE /\ mem' = r.mem
                /\ files' = cl.files
                /\ CASE r.kind = "hit" ->
                          /\ ret' = [CmdRet(c, k, f, 0, "ok", r.data, TRUE, 0)
                                        EXCEPT !.pre = PrevOp(ret, k),
                                               !.fresh = FreshEntry(k)]
                          /\ CmdIdle
                          /\ UNCHANGED fetchVars
                     [] r.kind = "miss" -> CmdFetching(c, f)
                     [] OTHER ->
                          /\ ret' = CmdRet(c, k, f, 0, "CacheIOError", <<>>, FALSE, 2)
                          /\ CmdIdle
                          /\ UNCHANGED fetchVars
    /\ UNCHANGED <<now, ttl, cfgVars>>

\* fetcher() returned: `data = fetcher()` / `posts = self.api.fetch_posts()`
StepFetchReturn ==
    /\ pc = "fetch"
    /\ fpc = "returned"
    /\ data' = fres
    /\ pc' = "save"
    /\ FetchIdle
    /\ UNCHANGED <<cacheVars, ret, cmd, force, ckey, from_cache, fetch_calls,
                   had_fresh, item, served, cfgVars>>

\* variant of StepFetchRaise: the handler drops the entry of the key whose
\* fetch failed
StepFetchRaiseClears ==
    /\ pc = "fetch"
    /\ fpc = "raised"
    /\ mem' = ClearResult(mem, files, ckey).mem
    /\ files' = ClearResult(mem, files, ckey).files
    /\ ret' = [CmdRet(cmd, ckey, force, fetch_calls, "APIClientError", <<>>, FALSE, 2)
                  EXCEPT !.fresh = had_fresh, !.hits = served]
    /\ CmdIdle
    /\ FetchIdle
    /\ UNCHANGED <<now, ttl, cfgVars>>

\* variant of StepFetchRaise: the failure is taken for an empty result, which
\* the handler goes on to save
StepFetchRaiseAsEmpty ==
    /\ pc = "fetch"
    /\ fpc = "raised"
    /\ data' = <<>>
    /\ pc' = "save"
    /\ FetchIdle
    /\ UNCHANGED <<cacheVars, ret, cmd, force, ckey, from_cache, fetch_calls,
                   had_fresh, item, served, cfgVars>>

\* fetcher() raised APIClientError: CLI.run returns 2, lines 76-79
StepFetchRaise ==
    /\ pc = "fetch"
    /\ fpc = "raised"
    /\ ret' = [CmdRet(cmd, ckey, force, fetch_calls, "APIClientError", <<>>, FALSE, 2)
                  EXCEPT !.fresh = had_fresh, !.hits = served]
    /\ CmdIdle
    /\ FetchIdle
    /\ UNCHANGED <<cacheVars, cfgVars>>

\* variant of StepSave: the handler swallows the error of save and returns 0
StepSaveSwallowed(w) ==
    /\ pc = "save"
    /\ cmd \in Commands
    /\ LET r == SaveResult(mem, files, ckey, data, now, w) IN
        /\ mem' = r.mem
        /\ files' = r.files
        /\ ret' = [CmdRet(cmd, ckey, force, fetch_calls, "ok", data, FALSE, 0)
                      EXCEPT !.fresh = had_fresh, !.at = now]
    /\ CmdIdle
    /\ UNCHANGED <<now, ttl, cfgVars, fetchVars>>

\* `self.cache.save(key, data)` and the rest of the handler: return 0, or 2
\* from CLI.run when save raised CacheIOError
StepSave(w) ==
    /\ pc = "save"
    /\ cmd \in Commands
    /\ LET r == SaveResult(mem, files, ckey, data, now, w) IN
        /\ mem' = r.mem
        /\ files' = r.files
        /\ ret' = [(IF r.kind = "ok"
                     THEN CmdRet(cmd, ckey, force, fetch_calls, "ok", data, FALSE, 0)
                     ELSE CmdRet(cmd, ckey, force, fetch_calls, "CacheIOError", <<>>,
                                 FALSE, 2))
                      EXCEPT !.fresh = had_fresh, !.at = now]
    /\ CmdIdle
    /\ UNCHANGED <<now, ttl, cfgVars, fetchVars>>

\* the commands of CLI.run that read two collections
GetCommands == {"get_post", "get_user"}

\* the ids a get command is called with: one that exists in <<Rec1, Rec2>>
\* and one that does not
Items == {1, 3}

\* the collection a get handler reads first, and the one it reads second
FirstKey(c) == IF c = "get_post" THEN KeyPosts ELSE KeyUsers

SecondKey(c) == IF c = "get_post" THEN KeyUsers ELSE KeyPosts

\* get_post_by_id / get_user_by_id return a record: some element has the id
Found(d, i) == \E j \in DOMAIN d : d[j].id = i

\* outcome record of a finished get command
GetRet(c, k, f, calls, kind, d, h, code) ==
    [CmdRet(c, k, f, calls, kind, d, h > 0, code) EXCEPT !.hits = h]

\* the `if force:` block of a get handler: _handle_get_post clears "posts"
\* (lines 138-139), _handle_get_user clears "users" and "posts" (163-165)
ForceClearGet(m, fs, c, f) ==
    IF ~f THEN [mem |-> m, files |-> fs]
    ELSE IF c = "get_post" THEN ClearResult(m, fs, KeyPosts)
    ELSE LET c1 == ClearResult(m, fs, KeyUsers) IN
         ClearResult(c1.mem, c1.files, KeyPosts)

\* the get command is suspended in the fetcher() call for key k, having taken
\* h collections from the cache and made n fetcher calls before
GetFetching(c, i, f, k, h, n) ==
    /\ pc' = "fetch"
    /\ cmd' = c
    /\ force' = f
    /\ ckey' = k
    /\ data' = <<>>
    /\ from_cache' = FALSE
    /\ fetch_calls' = n + 1
    /\ had_fresh' = FALSE
    /\ item' = i
    /\ served' = h
    /\ ret' = Ret("running", <<>>, FALSE, "ok", <<>>)
    /\ FetchInvoke

\* the handler has its first collection d (cache state m, fs): the lookup by
\* id, `return 1` when nothing is found, else _fetch_with_cache on the second
\* collection up to its fetcher call or to `return 0`
GetSecond(c, i, f, d, m, fs, h, n) ==
    IF ~Found(d, i)
    THEN /\ mem' = m
         /\ files' = fs
         /\ ret' = GetRet(c, FirstKey(c), f, n, "not_found", <<>>, h, 1)
         /\ CmdIdle
         /\ FetchIdle
    ELSE LET k == SecondKey(c)
             r == LoadResult(m, fs, k, FALSE, ttl, now)
         IN  /\ mem' = r.mem
             /\ files' = fs
             /\ CASE r.kind = "hit" ->
                       /\ ret' = GetRet(c, k, f, n, "ok", r.data, h + 1, 0)
                       /\ CmdIdle
                       /\ FetchIdle
                  [] r.kind = "miss" -> GetFetching(c, i, f, k, h, n)
                  [] OTHER ->
                       /\ ret' = GetRet(c, k, f, n, "CacheIOError", <<>>, h, 2)
                       /\ CmdIdle
                       /\ FetchIdle

\* CLI.run dispatches to _handle_get_post / _handle_get_user, which run up to
\* their first call of the fetcher or to their return
RunGet(c, i, f) ==
    /\ pc = "idle"
    /\ LET k == FirstKey(c)
           cl == ForceClearGet(mem, files, c, f)
           r == LoadResult(cl.mem, cl.files, k, FALSE, ttl, now)
       IN  CASE r.kind = "hit" ->
                 GetSecond(c, i, f, r.data, r.mem, cl.files, 1, 0)
            [] r.kind = "miss" ->
                 /\ mem' = r.mem
                 /\ files' = cl.files
                 /\ GetFetching(c, i, f, k, 0, 0)
            [] OTHER ->
                 /\ mem' = r.mem
                 /\ files' = cl.files
                 /\ ret' = GetRet(c, k, f, 0, "CacheIOError", <<>>, 0, 2)
                 /\ CmdIdle
                 /\ FetchIdle
    /\ UNCHANGED <<now, ttl, cfgVars>>

\* `self.cache.save(key, data)` of a get handler and what follows it: CLI.run
\* returns 2 when save raised, the handler goes on to its second collection
\* after the first, and returns 0 after the second
StepSaveGet(w) ==
    /\ pc = "save"
    /\ cmd \in GetCommands
    /\ LET r == SaveResult(mem, files, ckey, data, now, w) IN
        IF r.kind # "ok"
        THEN /\ mem' = r.mem
             /\ files' = r.files
             /\ ret' = GetRet(cmd, ckey, force, fetch_calls, "CacheIOError", <<>>,
                              served, 2)
             /\ CmdIdle
             /\ FetchIdle
        ELSE IF ckey = FirstKey(cmd)
        THEN GetSecond(cmd, item, force, data, r.mem, r.files, served, fetch_calls)
        ELSE /\ mem' = r.mem
             /\ files' = r.files
             /\ ret' = GetRet(cmd, ckey, force, fetch_calls, "ok", data, served, 0)
             /\ CmdIdle
             /\ FetchIdle
    /\ UNCHANGED <<now, ttl, cfgVars>>

\* ------------------------------------------------------------------------
\* Specifications
\* ------------------------------------------------------------------------

\* the backoff factors tried, in units of half a second (the default is 0.5)
BackoffFactors == {1, 3}

\* a fresh process over an empty cache directory
Init ==
    /\ now = 0
    /\ ttl \in 0..MaxTtl
    /\ mem = EmptyDict
    /\ files = EmptyDict
    /\ ret = Ret("init", <<>>, FALSE, "ok", <<>>)
    /\ pc = "idle"
    /\ cmd = "none"
    /\ force = FALSE
    /\ ckey = <<>>
    /\ data = <<>>
    /\ from_cache = FALSE
    /\ fetch_calls = 0
    /\ had_fresh = FALSE
    /\ item = 0
    /\ served = 0
    /\ max_retries = CliMaxRetries
    /\ backoff_factor = 1
    /\ fpc = "idle"
    /\ attempt = 0
    /\ sleeps = <<>>
    /\ outcomes = <<>>
    /\ last_exc = "none"
    /\ fres = <<>>
    /\ ferr = "none"

Next ==
    \/ \E k \in Keys, d \in Payloads, w \in WriteOutcomes : Save(k, d, w)
    \/ \E k \in Keys, s \in BOOLEAN : Load(k, s)
    \/ \E k \in Keys \cup {<<>>} : Clear(k)
    \/ Tick
    \/ Restart
    \/ \E c \in Commands, f \in BOOLEAN : Run(c, f)
    \/ \E o \in AttemptOutcomes : Attempt(o)
    \/ Exhausted
    \/ StepFetchReturn
    \/ StepFetchRaise
    \/ \E w \in WriteOutcomes : StepSave(w)

Spec == Init /\ [][Next]_vars

\* a client used on its own, as the tests do: any max_retries, any factor
InitFetch ==
    /\ now = 0
    /\ ttl = 0
    /\ mem = EmptyDict
    /\ files = EmptyDict
    /\ ret = Ret("init", <<>>, FALSE, "ok", <<>>)
    /\ pc = "client"
    /\ cmd = "none"
    /\ force = FALSE
    /\ ckey = <<>>
    /\ data = <<>>
    /\ from_cache = FALSE
    /\ fetch_calls = 0
    /\ had_fresh = FALSE
    /\ item = 0
    /\ served = 0
    /\ max_retries \in 0..MaxRetries
    /\ backoff_factor \in BackoffFactors
    /\ fpc = "idle"
    /\ attempt = 0
    /\ sleeps = <<>>
    /\ outcomes = <<>>
    /\ last_exc = "none"
    /\ fres = <<>>
    /\ ferr = "none"

NextFetch ==
    \/ ClientCall
    \/ \E o \in AttemptOutcomes : Attempt(o)
    \/ Exhausted

SpecFetch == InitFetch /\ [][NextFetch]_vars

\* _request runs on: session.get returns or raises within its timeout and
\* time.sleep returns, so a pass of the loop that can be made is made, and so
\* is the raise after the loop
SpecFetchFair ==
    /\ SpecFetch
    /\ WF_vars(\E o \in AttemptOutcomes : Attempt(o))
    /\ WF_vars(Exhausted)

\* the commands of CLI.run, each run to its end, over the cache they fill
NextCli ==
    \/ \E c \in Commands, f \in BOOLEAN : Run(c, f)
    \/ \E c \in GetCommands, i \in Items, f \in BOOLEAN : RunGet(c, i, f)
    \/ \E o \in AttemptOutcomes : Attempt(o)
    \/ Exhausted
    \/ StepFetchReturn
    \/ StepFetchRaise
    \/ \E w \in WriteOutcomes : StepSave(w)
    \/ \E w \in WriteOutcomes : StepSaveGet(w)
    \/ Tick
    \/ Restart

SpecCli == Init /\ [][NextCli]_vars

\* the cache called directly with the keys of IsoKeys
NextIso ==
    \/ \E k \in IsoKeys, d \in Payloads, w \in WriteOutcomes : Save(k, d, w)
    \/ \E k \in IsoKeys, s \in BOOLEAN : Load(k, s)
    \/ \E k \in IsoKeys : Clear(k)
    \/ Tick
    \/ Restart

SpecIso == Init /\ [][NextIso]_vars

\* the texts a file of cache_dir can hold when a process starts and load reads
\* it, lines 68-73: an entry written at time 0, a document cut short, a JSON
\* object without "data", one without "ts", and a JSON value that is no object
DiskTexts ==
    {JsonDump(0, d) : d \in Payloads}
    \cup {PartialDump(0, <<>>)}
    \cup {[JsonDump(0, <<>>) EXCEPT !.has_data = FALSE]}
    \cup {[JsonDump(0, d) EXCEPT !.has_ts = FALSE] : d \in Payloads}
    \cup {[JsonDump(0, <<>>) EXCEPT !.has_ts = FALSE, !.has_data = FALSE]}

\* the files of the two collections
CachePaths == {FilePath(k) : k \in Keys}

\* a process starts over a cache directory left by earlier processes or other
\* writers
InitDisk ==
    /\ now = 0
    /\ ttl \in 0..MaxTtl
    /\ mem = EmptyDict
    /\ files \in UNION {[P -> DiskTexts] : P \in SUBSET CachePaths}
    /\ ret = Ret("init", <<>>, FALSE, "ok", <<>>)
    /\ pc = "idle"
    /\ cmd = "none"
    /\ force = FALSE
    /\ ckey = <<>>
    /\ data = <<>>
    /\ from_cache = FALSE
    /\ fetch_calls = 0
    /\ had_fresh = FALSE
    /\ item = 0
    /\ served = 0
    /\ max_retries = CliMaxRetries
    /\ backoff_factor = 1
    /\ fpc = "idle"
    /\ attempt = 0
    /\ sleeps = <<>>
    /\ outcomes = <<>>
    /\ last_exc = "none"
    /\ fres = <<>>
    /\ ferr = "none"

\* the reads of that directory
NextDisk ==
    \/ \E k \in Keys, s \in BOOLEAN : Load(k, s)
    \/ Tick
    \/ Restart

SpecDisk == InitDisk /\ [][NextDisk]_vars

\* ------------------------------------------------------------------------
\* Properties of the cache and of the cache-aside handlers (under Spec)
\* ------------------------------------------------------------------------

\* C1: fresh hit. From every state in which an entry of age <= ttl exists for
\* a key (age = ttl included), load(key) returns that entry's payload, and a
\* non-forced command on the key returns it with from_cache = TRUE, status 0,
\* without invoking the fetcher.
C1_FreshHit ==
    [][/\ \A k \in Keys :
            (FreshEntry(k) /\ Load(k, FALSE))
                => (ret'.kind = "hit" /\ ret'.data = FreshPayload(k))
       /\ \A c \in Commands :
            (FreshEntry(KeyOf(c)) /\ Run(c, FALSE))
                => /\ ret'.op = c
                   /\ ret'.kind = "ok"
                   /\ ret'.from_cache
                   /\ ret'.data = FreshPayload(KeyOf(c))
                   /\ ret'.calls = 0
                   /\ pc' = "idle"
                   /\ fpc' = "idle"]_vars

\* a non-forced command was served from the memory entry whose age equals ttl > 0
C1_Witness ==
    /\ ret.op = "list_posts"
    /\ ret.from_cache
    /\ ~ret.forced
    /\ ttl > 0
    /\ KeyPosts \in DOMAIN mem
    /\ now - mem[KeyPosts].ts = ttl
    /\ ret.data = <<Rec1, Rec2>>

C3_StaleRead ==
    [][\A k \in Keys :
            (StoredEntry(k) /\ Load(k, TRUE))
                => (ret'.kind = "hit" /\ ret'.data = StoredPayload(k))]_vars

\* a stale-tolerant load returned the payload of an entry older than ttl
C3_Witness ==
    /\ ret.op = "load"
    /\ ret.stale
    /\ ret.kind = "hit"
    /\ ret.data = <<Rec1, Rec2>>
    /\ now - mem[ret.key].ts > ttl

\* C4: round trip. A load(key) that directly follows a successful
\* save(key, p), with no time passed, returns p, records in the same order.
C4_RoundTrip ==
    [][\A k \in Keys :
            (/\ ret.op = "save"
             /\ ret.kind = "ok"
             /\ ret.key = k
             /\ ret.at = now
             /\ Load(k, FALSE))
                => (ret'.kind = "hit" /\ ret'.data = ret.data)]_vars

\* a load directly after a successful save returned the two saved records
C4_Witness ==
    /\ ret.op = "load"
    /\ ret.pre = "save"
    /\ ret.kind = "hit"
    /\ ret.data = <<Rec1, Rec2>>
    /\ now = mem[ret.key].ts

\* C5: a load(key) that directly follows clear(key), or clear() of everything,
\* returns a miss, whichever tiers held the key before and with or without
\* allow_stale; clear itself never raises.
C5_ClearThenMiss ==
    [][/\ \A k \in Keys, s \in BOOLEAN :
            (ret.op = "clear" /\ ret.key \in {k, <<>>} /\ Load(k, s))
                => ret'.kind = "miss"
       /\ \A k \in Keys \cup {<<>>} :
            Clear(k) => /\ ret'.kind = "ok"
                        /\ \A j \in Keys : j \in {k} \/ k = <<>>
                              => /\ j \notin DOMAIN mem'
                                 /\ FilePath(j) \notin DOMAIN files']_vars

\* a load directly after a clear reported a miss
C5_Witness ==
    /\ ret.op = "load"
    /\ ret.pre = "clear"
    /\ ret.kind = "miss"

\* C6: forced refresh. While a forced command waits for the fetcher, neither
\* tier holds its key (the clear came first) and the fetcher has been invoked
\* once; a forced command never ends without having invoked the fetcher, also
\* when a fresh entry existed, and never reports from_cache; when it ends
\* with status 0 both tiers hold the fetched result under the key.
C6_ForcedRefresh ==
    /\ (pc = "fetch" /\ force)
          => /\ ckey \notin DOMAIN mem
             /\ FilePath(ckey) \notin DOMAIN files
             /\ fetch_calls = 1
    /\ (ret.op \in Commands /\ ret.forced)
          => /\ ret.calls = 1
             /\ ~ret.from_cache
             /\ ret.kind = "ok"
                  => /\ ret.code = 0
                     /\ ret.key \in DOMAIN mem
                     /\ mem[ret.key] = [ts |-> ret.at, data |-> ret.data]
                     /\ FilePath(ret.key) \in DOMAIN files
                     /\ files[FilePath(ret.key)] = JsonDump(ret.at, ret.data)

\* a forced command that found a fresh entry ended with status 0
C6_Witness ==
    /\ ret.op = "list_users"
    /\ ret.forced
    /\ ret.fresh
    /\ ret.kind = "ok"
    /\ ret.data = <<Rec1, Rec2>>

\* C7: cache-aside populate. A non-forced command that misses invokes the
\* fetcher exactly once and, ending with status 0, has saved the result under
\* its key and reports from_cache = FALSE; a non-forced command on the same
\* key that directly follows, within ttl of that save, returns the same
\* payload with from_cache = TRUE and invokes no fetch.
C7_Populate ==
    [][/\ (pc' = "fetch" /\ ~force') => fetch_calls' = 1
       /\ (ret'.op \in Commands /\ ~ret'.forced /\ ~ret'.from_cache /\ ret'.kind = "ok")
            => /\ ret'.calls = 1
               /\ ret'.code = 0
               /\ ret'.key \in DOMAIN mem'
               /\ mem'[ret'.key] = [ts |-> ret'.at, data |-> ret'.data]
               /\ FilePath(ret'.key) \in DOMAIN files'
               /\ files'[FilePath(ret'.key)] = JsonDump(ret'.at, ret'.data)
       /\ \A c \in Commands :
            (/\ PrevOp(ret, KeyOf(c)) = "populate"
             /\ now - ret.at <= ttl
             /\ Run(c, FALSE))
                => /\ ret'.op = c
                   /\ ret'.kind = "ok"
                   /\ ret'.from_cache
                   /\ ret'.data = ret.data
                   /\ ret'.calls = 0
                   /\ pc' = "idle"]_vars

\* the second of two non-forced commands was served from what the first saved
C7_Witness ==
    /\ ret.op = "list_users"
    /\ ret.pre = "populate"
    /\ ret.from_cache
    /\ ~ret.forced
    /\ ret.calls = 0
    /\ ret.data = <<Rec1, Rec2>>

\* C14: save failure. A save(key, p) whose file write cannot complete raises
\* CacheIOError and leaves {ts: now, data: p} in the memory tier; a load(key)
\* that follows the failed save within ttl returns p.
C14_SaveFailure ==
    [][\A k \in Keys :
        /\ \A d \in Payloads, w \in WriteOutcomes \ {"ok"} :
                Save(k, d, w)
                    => /\ ret'.kind = "CacheIOError"
                       /\ k \in DOMAIN mem'
                       /\ mem'[k] = [ts |-> now, data |-> d]
        /\ (/\ ret.op = "save"
            /\ ret.kind = "CacheIOError"
            /\ ret.key = k
            /\ now - ret.at <= ttl
            /\ Load(k, FALSE))
                => (ret'.kind = "hit" /\ ret'.data = ret.data)]_vars

\* a load returned the two records of a save whose write stopped part-way: the
\* file is cut short and the memory tier holds the entry, a second old
C14_Witness ==
    /\ ret.op = "load"
    /\ ~ret.stale
    /\ ret.kind = "hit"
    /\ ret.data = <<Rec1, Rec2>>
    /\ HasBrokenFile(files, ret.key)
    /\ mem[ret.key].data = <<Rec1, Rec2>>
    /\ now - mem[ret.key].ts = 1
    /\ ttl = 1

\* C15: wholesale replacement. A save over an existing entry is never seen
\* part-way: every load, also one after a failed or interrupted write and a
\* restart, ends in a complete payload (the old or the new one) or in a miss.
C15_WholesaleReplacement ==
    ret.op = "load"
        => /\ ret.kind \in {"hit", "miss"}
           /\ ret.kind = "hit" => ret.data \in Payloads

\* the state of the cache-aside call of a list command, read off the position
\* of the handler and of the fetcher; between calls, the end of the last one
Phase ==
    CASE pc = "fetch" /\ fpc = "running" -> "FETCHING"
      [] pc = "fetch" /\ fpc = "returned" -> "FETCH_OK"
      [] pc = "fetch" /\ fpc = "raised" -> "FETCH_FAIL"
      [] pc = "save" -> "CACHE_WRITE"
      [] pc = "idle" /\ ret.op \in Commands /\ ret.kind = "ok" -> "DONE"
      [] pc = "idle" /\ ret.op \in Commands /\ ret.kind # "ok" -> "FAILED"
      [] OTHER -> "START"

\* the state a step leaves: a call begins at START wherever the last one ended
PhaseFrom == IF pc = "idle" THEN "START" ELSE Phase

\* the transitions of the call as the state machine draws them, the states
\* passed within one step (CACHE_HIT, CACHE_MISS, CLEAR) left out; START to
\* START is a step that is no call
DrawnMoves ==
    {<<"START", "START">>, <<"START", "DONE">>, <<"START", "FETCHING">>,
     <<"FETCHING", "FETCH_OK">>, <<"FETCHING", "FETCH_FAIL">>,
     <<"FETCH_OK", "CACHE_WRITE">>, <<"FETCH_FAIL", "FAILED">>,
     <<"CACHE_WRITE", "DONE">>}

\* the transitions a cache I/O error adds: load raises, save raises
CacheFaultMoves == {<<"START", "FAILED">>, <<"CACHE_WRITE", "FAILED">>}

\* a step that changes the state of the call or completes an operation
CallMoves == Phase' # Phase \/ ret' # ret

\* what each transition of the call carries with it: a hit is what ends a
\* call without a fetch, and never under --force; a forced call goes to
\* FETCHING; DONE after CACHE_WRITE has stored the fetched list
MoveDetails ==
    /\ (PhaseFrom = "START" /\ Phase' = "DONE")
            => (ret'.from_cache /\ ~ret'.forced /\ ret'.calls = 0)
    /\ \A c \in Commands : Run(c, TRUE) => Phase' = "FETCHING"
    /\ (PhaseFrom = "CACHE_WRITE" /\ Phase' = "DONE")
            => /\ ~ret'.from_cache
               /\ ret'.data = data
               /\ mem'[ckey] = [ts |-> now, data |-> data]

\* C17 as stated: a call moves only along START -> CACHE_HIT -> DONE,
\* START -> CACHE_MISS -> FETCHING -> FETCH_OK -> CACHE_WRITE -> DONE,
\* ... -> FETCHING -> FETCH_FAIL -> FAILED, and START -> CLEAR -> FETCHING
\* under --force: FAILED is entered from FETCH_FAIL only, and CACHE_WRITE is
\* left for DONE only.
C17_StateMachineAsStated ==
    [][CallMoves => (<<PhaseFrom, Phase'>> \in DrawnMoves /\ MoveDetails)]_vars

\* C17: state machine of a cache-aside call. A call moves only along the
\* paths above or fails with a cache I/O error: from START when load raises
\* CacheIOError, from CACHE_WRITE when save raises it. FAILED is entered from
\* FETCH_FAIL with the fetcher's error or by one of these two; every FETCH_OK
\* is followed by CACHE_WRITE, and CACHE_WRITE by DONE or by FAILED.
C17_StateMachine ==
    [][CallMoves
        => /\ <<PhaseFrom, Phase'>> \in DrawnMoves \cup CacheFaultMoves
           /\ MoveDetails
           /\ <<PhaseFrom, Phase'>> \in CacheFaultMoves
                => ret'.kind = "CacheIOError"
           /\ <<PhaseFrom, Phase'>> = <<"FETCH_FAIL", "FAILED">>
                => ret'.kind = "APIClientError"]_vars

\* a forced call went through CLEAR, FETCHING, FETCH_OK and CACHE_WRITE and
\* failed there with CacheIOError; the file is cut short
C17_Witness ==
    /\ Phase = "FAILED"
    /\ ret.forced
    /\ ret.calls = 1
    /\ ret.kind = "CacheIOError"
    /\ HasBrokenFile(files, ret.key)

\* C19: restart durability and lazy promotion. A successful save(key, p)
\* leaves the entry {ts: now, data: p} in the file; a restart empties the
\* memory tier and keeps the files; and the load(key) after the restart, at an
\* age <= ttl, returns the payload of the file and puts the entry into the
\* memory tier with the timestamp of the file, not the time of the load.
C19_RestartPromotion ==
    [][\A k \in Keys :
        LET path == FilePath(k) IN
        /\ \A d \in Payloads :
                Save(k, d, "ok")
                    => /\ HasFileEntry(files', k)
                       /\ files'[path].ts = now
                       /\ files'[path].data = d
        /\ Restart => (files' = files /\ DOMAIN mem' = {})
        /\ (/\ ret.op = "restart"
            /\ HasFileEntry(files, k)
            /\ now - files[path].ts <= ttl
            /\ Load(k, FALSE))
                => /\ ret'.kind = "hit"
                   /\ ret'.data = files[path].data
                   /\ k \in DOMAIN mem'
                   /\ mem'[k] = [ts |-> files[path].ts, data |-> files[path].data]
                   /\ files' = files]_vars

\* the load after a restart returned the two records of a file written a
\* second before, and the memory tier holds them with the file's timestamp
C19_Witness ==
    /\ ret.op = "load"
    /\ ret.pre = "restart"
    /\ ret.kind = "hit"
    /\ ret.data = <<Rec1, Rec2>>
    /\ mem[ret.key] = [ts |-> now - 1, data |-> <<Rec1, Rec2>>]
    /\ files[FilePath(ret.key)].ts = now - 1

\* C21: load is read-only except for promotion. A load(key, allow_stale)
\* leaves every file as it is and the memory entry of every other key as it
\* is; it changes the memory entry of key only by putting there the entry of
\* the file, timestamp and payload, which is what it returns. So no load moves
\* a timestamp forward: the memory entry after a load carries the timestamp it
\* had or the one of the file.
C21_LoadReadOnly ==
    [][\A k \in Keys, s \in BOOLEAN :
        LET path == FilePath(k) IN
        Load(k, s)
            => /\ files' = files
               /\ \A k2 \in Keys \ {k} :
                    /\ (k2 \in DOMAIN mem') = (k2 \in DOMAIN mem)
                    /\ k2 \in DOMAIN mem => mem'[k2] = mem[k2]
               /\ k \in DOMAIN mem => k \in DOMAIN mem'
               /\ (k \in DOMAIN mem' /\ (k \notin DOMAIN mem \/ mem'[k] # mem[k]))
                    => /\ HasFileEntry(files, k)
                       /\ mem'[k] = [ts |-> files[path].ts, data |-> files[path].data]
                       /\ ret'.kind = "hit"
                       /\ ret'.data = files[path].data
               /\ (k \in DOMAIN mem /\ mem'[k].ts > mem[k].ts)
                    => (HasFileEntry(files, k) /\ mem'[k].ts = files[path].ts)]_vars

\* a stale-tolerant load after a restart returned the two records of an
\* expired file and put them into the memory tier with the file's timestamp;
\* the file is as it was
C21_Witness ==
    /\ ret.op = "load"
    /\ ret.stale
    /\ ret.pre = "restart"
    /\ ret.kind = "hit"
    /\ ret.data = <<Rec1, Rec2>>
    /\ HasFileEntry(files, ret.key)
    /\ now - files[FilePath(ret.key)].ts > ttl
    /\ mem[ret.key] = [ts |-> files[FilePath(ret.key)].ts, data |-> <<Rec1, Rec2>>]

\* ------------------------------------------------------------------------
\* Properties of the API client (under SpecFetch)
\* ------------------------------------------------------------------------

\* the delays b, 2b, 4b, ... of n consecutive sleeps
BackoffSeq(b, n) == [i \in 1..n |-> b * 2^(i - 1)]

\* every attempt made so far ended in a server-error status
OnlyServerErrors == \A i \in DOMAIN outcomes : outcomes[i] = "server_error"

\* C8: server-error exhaustion. A fetch that failed after nothing but
\* server-error responses has made exactly max_retries attempts and has slept
\* b, 2b, ..., b*2^(N-2) between them.
C8_ServerErrorExhaustion ==
    (fpc = "raised" /\ outcomes # <<>> /\ OnlyServerErrors)
        => /\ attempt = max_retries
           /\ sleeps = BackoffSeq(backoff_factor, max_retries - 1)

\* C9: server-error recovery. A fetch that has ended before its attempts ran
\* out, after server-error responses followed at most by one success, has
\* returned that success, having slept b, 2b, ... after the server errors.
C9_ServerErrorRecovery ==
    (/\ fpc \in {"returned", "raised"}
     /\ outcomes # <<>>
     /\ attempt < max_retries
     /\ \A i \in 1..(Len(outcomes) - 1) : outcomes[i] = "server_error"
     /\ outcomes[Len(outcomes)] \in {"server_error", "success"})
        => /\ fpc = "returned"
           /\ sleeps = BackoffSeq(backoff_factor, attempt - 1)

\* a client-error status, or a body of a non-error response that is no JSON or
\* no JSON list
FatalOutcome(o) ==
    /\ o.exc = "none"
    /\ \/ o.status \in 400..499
       \/ o.status < 400 /\ o.body \in {"invalid", "object"}

\* the error the fetch is to fail with for a fatal outcome
FatalError(o) ==
    IF o.status \in 400..499 THEN "client_error"
    ELSE IF o.body = "invalid" THEN "malformed"
    ELSE "shape"

\* C10: fatal faults abort immediately. An attempt that meets a client-error
\* status, an unparseable body or a body that is no list makes the fetch fail
\* with the matching error right away, without a sleep (on the first attempt:
\* one attempt, no delay at all); a fetch that has failed makes no further
\* attempt and no further sleep.
C10_FatalAbort ==
    [][/\ \A o \in AttemptOutcomes :
            (FatalOutcome(o) /\ Attempt(o))
                => /\ fpc' = "raised"
                   /\ ferr' = FatalError(o)
                   /\ attempt' = attempt + 1
                   /\ sleeps' = sleeps
                   /\ attempt = 0 => (attempt' = 1 /\ sleeps' = <<>>)
       /\ fpc = "raised"
            => /\ attempt' <= attempt
               /\ Len(sleeps') <= Len(sleeps)]_vars

\* a body that is no list failed the fetch on the first of three attempts
C10_Witness ==
    /\ fpc = "raised"
    /\ ferr = "shape"
    /\ max_retries = 3
    /\ attempt = 1
    /\ sleeps = <<>>

\* every attempt made so far ended in a timeout or a connection error
OnlyTransportFailures == \A i \in DOMAIN outcomes : outcomes[i] = "transport"

\* C11: transport exhaustion. A fetch that failed after nothing but transport
\* failures has made exactly max_retries attempts, has slept only between
\* attempts, b, 2b, ..., b*2^(N-2) (N-1 sleeps, none after the final failed
\* attempt), and fails with the exhaustion error whose cause is a transport
\* exception.
C11_TransportExhaustion ==
    (fpc = "raised" /\ outcomes # <<>> /\ OnlyTransportFailures)
        => /\ ferr = "exhausted"
           /\ attempt = max_retries
           /\ last_exc \in {"Timeout", "ConnectionError"}
           /\ sleeps = BackoffSeq(backoff_factor, max_retries - 1)

\* every attempt made so far ended in an exception of session.get
OnlyRetriedFailures ==
    \A i \in DOMAIN outcomes : outcomes[i] \in {"transport", "uncategorized"}

\* a non-error status with a body that is a JSON list
SuccessOutcome(o) == o.exc = "none" /\ o.status < 400 /\ o.body = "list"

\* C12: transport recovery. After k < max_retries attempts that each ended in
\* a transport failure or an uncategorized exception the fetch is still
\* running; an attempt k+1 that meets a non-error status with a JSON list
\* makes the fetch return exactly that list after k+1 attempts; and a fetch
\* that has returned makes no further attempt and keeps its result.
C12_TransportRecovery ==
    [][/\ (fpc' # "idle" /\ OnlyRetriedFailures' /\ attempt' < max_retries)
            => (fpc' = "running" /\ attempt' = Len(outcomes'))
       /\ \A o \in AttemptOutcomes :
            (OnlyRetriedFailures /\ SuccessOutcome(o) /\ Attempt(o))
                => /\ fpc' = "returned"
                   /\ fres' = o.data
                   /\ attempt' = Len(outcomes) + 1
       /\ fpc = "returned"
            => (attempt' <= attempt /\ (fpc' = "returned" => fres' = fres))]_vars

\* a timeout and an uncategorized exception were followed by a success on the
\* last of three attempts, which returned the two records
C12_Witness ==
    /\ fpc = "returned"
    /\ max_retries = 3
    /\ attempt = 3
    /\ outcomes = <<"transport", "uncategorized", "success">>
    /\ fres = <<Rec1, Rec2>>

\* the errors _request raises, by the message of the APIClientError
ClassifiedErrors ==
    {"server_error", "client_error", "malformed", "shape", "exhausted"}

\* C23: bounded retry. Whatever max_retries >= 0 is and whatever the attempts
\* meet, a fetch makes at most max_retries attempts; it returns a list only
\* when its last attempt succeeded, and then that attempt's list; it fails
\* only with a classified error; and a fetch that is running ends, by a
\* return or by an error.
C23_BoundedRetry ==
    /\ [](/\ attempt <= max_retries
          /\ Len(outcomes) = attempt
          /\ fpc = "returned"
                => /\ outcomes # <<>>
                   /\ outcomes[Len(outcomes)] = "success"
                   /\ fres \in Payloads
          /\ fpc = "raised" => ferr \in ClassifiedErrors
          /\ (fpc # "returned" /\ \A i \in DOMAIN outcomes : outcomes[i] # "success")
                => fres = <<>>)
    /\ (fpc = "running") ~> (fpc \in {"returned", "raised"})

\* with max_retries = 0 the fetch failed with the exhaustion error without an
\* attempt
C23_Witness ==
    /\ max_retries = 0
    /\ fpc = "raised"
    /\ ferr = "exhausted"
    /\ attempt = 0
    /\ outcomes = <<>>

\* ------------------------------------------------------------------------
\* Properties of the cache over a directory it did not write (under SpecDisk)
\* ------------------------------------------------------------------------

\* the memory tier answers load(key, allow_stale) without a read of the file
MemServes(key, allow_stale) ==
    key \in DOMAIN mem /\ (allow_stale \/ now - mem[key].ts <= ttl)

\* C13: a cache I/O fault is never a miss. A load that has to read the
\* persisted tier and finds a file that is no well-formed entry (no complete
\* JSON document, or one without the timestamp/payload structure) fails with
\* CacheIOError; and a load returns a miss only when no entry is stored for
\* the key or every stored entry is expired.
C13_FaultNeverMiss ==
    [][\A k \in Keys, s \in BOOLEAN :
            Load(k, s)
                => /\ (~MemServes(k, s) /\ HasBrokenFile(files, k))
                        => ret'.kind = "CacheIOError"
                   /\ ret'.kind = "miss"
                        => (~StoredEntry(k) \/ ExpiredEntry(k))]_vars

\* ------------------------------------------------------------------------
\* Properties of the commands (under SpecCli)
\* ------------------------------------------------------------------------

\* C16: --force covers the whole command. A command run with --force has
\* taken none of the collections it read from the cache: each one was
\* fetched remotely.
C16_ForceWholeCommand ==
    (ret.op \in Commands \cup GetCommands /\ ret.forced)
        => (ret.hits = 0 /\ ~ret.from_cache)

\* C18: fault propagation. A fault raised by the fetcher or by the cache
\* during a command reaches CLI.run as it is: the command ends, with the
\* error's own kind, no result and a status other than 0, and the CLI is back
\* at rest (nothing ends the process). This holds for the fetcher's error, for
\* a save that fails, and for a load that meets a file it cannot parse.
C18_FaultPropagation ==
    [][/\ (pc = "fetch" /\ fpc = "raised" /\ ret' # ret)
            => /\ pc' = "idle"
               /\ ret'.op = cmd
               /\ ret'.kind = "APIClientError"
               /\ ret'.code # 0
       /\ \A w \in WriteOutcomes \ {"ok"} :
            (StepSave(w) \/ StepSaveGet(w))
                => /\ pc' = "idle"
                   /\ ret'.op = cmd
                   /\ ret'.kind = "CacheIOError"
                   /\ ret'.code # 0
       /\ \A c \in Commands \cup GetCommands :
            LET k == IF c \in Commands THEN KeyOf(c) ELSE FirstKey(c) IN
            (/\ ~MemServes(k, FALSE)
             /\ HasBrokenFile(files, k)
             /\ Run(c, FALSE) \/ \E i \in Items : RunGet(c, i, FALSE))
                => /\ pc' = "idle"
                   /\ ret'.op = c
                   /\ ret'.kind = "CacheIOError"
                   /\ ret'.code # 0
       /\ (ret'.op \in Commands \cup GetCommands /\ ret'.kind # "ok")
            => (ret'.code # 0 /\ ret'.data = <<>> /\ fpc' = "idle")]_vars

\* get post found its post and then failed in the fetch of the users: the
\* second fetcher call raised, and the command ended with status 2
C18_Witness ==
    /\ ret.op = "get_post"
    /\ ret.kind = "APIClientError"
    /\ ret.calls = 2
    /\ ret.code = 2
    /\ pc = "idle"

\* C22: a failed fetch does not touch the cache. A non-forced command whose
\* load misses enters the fetch with both tiers as they were; no step taken
\* while the fetcher runs changes a tier; and when the fetcher raised, the
\* command ends there with the fetcher's error, without a save. So both tiers
\* hold after the failed call what they held before it.
C22_FailedFetchNoTouch ==
    [][/\ \A c \in Commands :
            (Run(c, FALSE) /\ pc' = "fetch")
                => (mem' = mem /\ files' = files)
       /\ \A c \in GetCommands, i \in Items :
            (RunGet(c, i, FALSE) /\ pc' = "fetch" /\ ckey' = FirstKey(c))
                => (mem' = mem /\ files' = files)
       /\ pc = "fetch" => (mem' = mem /\ files' = files)
       /\ (pc = "fetch" /\ fpc = "raised" /\ pc' # "fetch")
            => /\ pc' = "idle"
               /\ ret'.kind = "APIClientError"
               /\ ret'.calls = fetch_calls]_vars

\* a non-forced list posts failed in its fetch, and the expired entry of
\* "posts" that made its load miss is still in both tiers
C22_Witness ==
    /\ ret.op = "list_posts"
    /\ ~ret.forced
    /\ ret.kind = "APIClientError"
    /\ pc = "idle"
    /\ KeyPosts \in DOMAIN mem
    /\ now - mem[KeyPosts].ts > ttl
    /\ mem[KeyPosts].data = <<Rec1, Rec2>>
    /\ HasFileEntry(files, KeyPosts)
    /\ files[FilePath(KeyPosts)].data = <<Rec1, Rec2>>

\* ------------------------------------------------------------------------
\* Properties of the cache under keys that differ in a separator (SpecIso)
\* ------------------------------------------------------------------------

\* C20: key isolation. For two different keys k1 and k2, a save(k1, p) and a
\* clear(k1) leave what each tier holds for k2 as it was: the memory entry of
\* k2 and the file of k2 are neither changed, created nor removed.
C20_KeyIsolation ==
    [][\A k1 \in IsoKeys : \A k2 \in IsoKeys \ {k1} :
        ((\E d \in Payloads, w \in WriteOutcomes : Save(k1, d, w)) \/ Clear(k1))
            => /\ (k2 \in DOMAIN mem') = (k2 \in DOMAIN mem)
               /\ k2 \in DOMAIN mem => mem'[k2] = mem[k2]
               /\ (FilePath(k2) \in DOMAIN files') = (FilePath(k2) \in DOMAIN files)
               /\ FilePath(k2) \in DOMAIN files
                    => files'[FilePath(k2)] = files[FilePath(k2)]]_vars

====
